---- MODULE Spec2Model ----
(***************************************************************************)
(* Model of the thesis-assistant retrieval scripts:                        *)
(*   scripts/paper_searcher.py         search_papers, get_paper_details,   *)
(*                                     search_and_extract,                 *)
(*                                     generate_reference                  *)
(*   scripts/thesis_paper_searcher.py  search_cnki, search_arxiv,          *)
(*                                     get_cnki_paper_details,             *)
(*                                     get_arxiv_paper_details, main       *)
(*   references/paper_search.py        verify_reference                    *)
(*                                                                         *)
(* Encoding of Python values.                                              *)
(*   str        a sequence of pieces (characters or longer literals); ""   *)
(*              is <<>>, concatenation is \o, s[:n] is a prefix            *)
(*   list       a sequence                                                 *)
(*   Optional   None is <<>>, a value v is <<v>>                           *)
(*   dict       a function from the keys that are present; a key that is   *)
(*              omitted is outside DOMAIN                                  *)
(* Non-ASCII literals of the source are written in ASCII:                  *)
(*   "[N] " for the sequence-number prefix, UnknownAuthors, UnknownTitle,  *)
(*   UnknownJournal for the three placeholder texts.                       *)
(***************************************************************************)
EXTENDS Integers, Sequences, FiniteSets, TLC

VARIABLES pc,            \* position of the running entry point
          platform,      \* platform argument of the call
          max_results,   \* cap argument of the call
          soup,          \* parsed search page, <<>> before the fetch
          urls,          \* urls resolved from the search page
          ui,            \* index of the next url of the loop
          papers,        \* papers / all_papers accumulated by the loop
          log,           \* network fetches and sleeps, in program order
          exc,           \* exception that left the entry point, None if none
          dsoup,         \* outcome of the last detail-page fetch
          paper,         \* record under work (Optional[Dict])
          ref,           \* return value of generate_reference
          valid,         \* return value of verify_reference
          seen_titles,   \* main: set of titles seen by the dedup loop
          unique_papers, \* main: output of the dedup loop
          kwi            \* main: index of the current keyword iteration

vars == <<pc, platform, max_results, soup, urls, ui, papers, log, exc, dsoup,
          paper, ref, valid, seen_titles, unique_papers, kwi>>

-----------------------------------------------------------------------------
(* Python values *)

None == <<>>

Some(v) == <<v>>

Val(o) == o[1]

\* bool(x) for an Optional str or Optional list: None, "" and [] are falsy
Truthy(o) == o # None /\ Val(o) # <<>>

\* the fields a dict is given at construction: c is {} (key omitted) or {v}
Fld(k, c) == [x \in {y \in {k} : c # {}} |-> CHOOSE v \in c : TRUE]

\* dict.get(k, default)
Get(d, k, default) == IF k \in DOMAIN d THEN d[k] ELSE default

\* str(x) inside an f-string: None prints as the text None
Render(o) == IF o = None THEN <<"None">> ELSE Val(o)

Min(a, b) == IF a < b THEN a ELSE b

\* s[:n]
Prefix(s, n) == SubSeq(s, 1, Min(n, Len(s)))

\* needle in hay, for strings
Contains(hay, needle) ==
    \E i \in 0..(Len(hay) - Len(needle)) :
        SubSeq(hay, i + 1, i + Len(needle)) = needle

EndsWith(hay, needle) ==
    /\ Len(needle) <= Len(hay)
    /\ SubSeq(hay, Len(hay) - Len(needle) + 1, Len(hay)) = needle

Whitespace == {" ", "\t", "\n"}

RECURSIVE LStrip(_)
LStrip(s) == IF s # <<>> /\ Head(s) \in Whitespace THEN LStrip(Tail(s)) ELSE s

RECURSIVE RStrip(_)
RStrip(s) ==
    IF s # <<>> /\ s[Len(s)] \in Whitespace
    THEN RStrip(SubSeq(s, 1, Len(s) - 1))
    ELSE s

\* s.strip()
Strip(s) == RStrip(LStrip(s))

-----------------------------------------------------------------------------
(* Paper records given to verify_reference and generate_reference *)

\* an optional key: omitted, or one of vals
Opt(vals) == {{}} \cup {{v} : v \in vals}

StrVals == {None, Some(<<>>)}

TitleChoices == Opt(StrVals \cup {Some(<<"T">>)})

UrlChoices == Opt(StrVals \cup {Some(<<"http://u/1">>)})

AuthorsChoices == Opt({None, Some(<<>>), Some(<< <<"A">> >>),
                       Some(<< <<"A">>, <<"B">> >>)})

JournalChoices == Opt({None, Some(<<"J">>)})

YearChoices == Opt({None, Some(<<"2024">>)})

DoiChoices == Opt(StrVals \cup {Some(<<"10.1/xyz">>)})

PlatformChoices == Opt({"cnki", "nih"})

MkRecord(u, p, t, a, j, y, d) ==
    Fld("url", u) @@ Fld("platform", p) @@ Fld("title", t) @@
    Fld("authors", a) @@ Fld("journal", j) @@ Fld("year", y) @@ Fld("doi", d)

RecordPool ==
    {MkRecord(u, p, t, a, j, y, d) :
        u \in UrlChoices, p \in PlatformChoices, t \in TitleChoices,
        a \in AuthorsChoices, j \in JournalChoices, y \in YearChoices,
        d \in DoiChoices}

-----------------------------------------------------------------------------
(* references/paper_search.py: verify_reference *)

required_fields == <<"title", "url">>

RECURSIVE VerifyLoop(_, _)
VerifyLoop(paper_info, i) ==
    IF i > Len(required_fields) THEN TRUE
    ELSE IF required_fields[i] \notin DOMAIN paper_info
            \/ ~Truthy(paper_info[required_fields[i]])
         THEN FALSE
         ELSE VerifyLoop(paper_info, i + 1)

\* a verifier that forgets the url
verify_reference_title_only(paper_info) ==
    "title" \in DOMAIN paper_info /\ Truthy(paper_info["title"])

verify_reference(paper_info) == VerifyLoop(paper_info, 1)

-----------------------------------------------------------------------------
(* scripts/paper_searcher.py: generate_reference *)

UnknownAuthors == <<"UnknownAuthors">>

UnknownTitle == <<"UnknownTitle">>

UnknownJournal == <<"UnknownJournal">>

UnknownYear == <<"0000">>

RECURSIVE Join(_, _)
\* sep.join(items)
Join(sep, items) ==
    IF items = <<>> THEN <<>>
    ELSE IF Len(items) = 1 THEN items[1]
    ELSE items[1] \o sep \o Join(sep, Tail(items))

RefAuthors(p) ==
    IF Truthy(Get(p, "authors", None))
    THEN Join(<<", ">>, Val(Get(p, "authors", Some(<<>>))))
    ELSE UnknownAuthors

RefHead(p) ==
    <<"[N] ">> \o RefAuthors(p) \o <<". ">>
    \o Render(Get(p, "title", Some(UnknownTitle))) \o <<"[J]. ">>
    \o Render(Get(p, "journal", Some(UnknownJournal))) \o <<", ">>
    \o Render(Get(p, "year", Some(UnknownYear)))

RefSource(p) ==
    IF Truthy(Get(p, "url", Some(<<>>)))
    THEN <<"\nSourceURL: ">> \o Val(p["url"])
    ELSE <<>>

\* a formatter that appends the DOI part without testing doi
generate_reference_always_doi(p) ==
    RefHead(p) \o <<". ", "DOI: ">> \o Render(Get(p, "doi", Some(<<>>)))
    \o RefSource(p)

generate_reference(p) ==
    (IF Truthy(Get(p, "doi", Some(<<>>)))
     THEN RefHead(p) \o <<". ", "DOI: ">> \o Val(p["doi"])
     ELSE RefHead(p))
    \o RefSource(p)

-----------------------------------------------------------------------------
(* Pages and the network *)

\* an element of a parsed page: its get_text(strip=True) and its content
\* attribute (None when the tag has no such attribute); raw is the text as
\* the page carries it
Elem(raw) == [text |-> Strip(raw), content |-> Some(raw)]

ElemNoAttr == [text |-> <<>>, content |-> None]

\* soup.select_one(selector): elems is soup.select(selector)
select_one(elems) == IF elems = <<>> THEN None ELSE Some(elems[1])

\* a or b, for tags: a tag is truthy whatever its contents
OrElse(a, b) == IF a # None THEN a ELSE b

\* A detail page is what its selectors yield, in document order:
\*   title1   '#mainTitle' | meta citation_title | 'h1'
\*   title2   'h1.title' | '.title' | 'h1'
\*   authors  '.author a' | '.authors a' | '.authors span'
\*   journal1 '.journal-name' | meta citation_journal_title | '.journal'
\*   journal2 '.journal' | '.venue'
\*   date1    '.publish-date' | meta citation_date | '.year'
\*   date2    '.year' | '.publication_date'
\*   doi      meta citation_doi
MaxAuthorElems == 6

\* n author elements with distinct names: a, aa, aaa, ...
AuthorElems(n) == [i \in 1..n |-> Elem([k \in 1..i |-> "a"])]

Date1Texts == {<<"2", "0", "2", "4", "-", "0", "5">>, <<"n", "a">>,
               <<"v", "2", "0", "2", "4">>}

DetailPages ==
    [title1   : {<<>>, <<Elem(<<>>)>>, <<Elem(<<" ">>)>>, <<Elem(<<"T">>)>>,
                 <<ElemNoAttr>>},
     title2   : {<<>>, <<Elem(<<"T2">>)>>},
     authors  : {AuthorElems(0), AuthorElems(1), AuthorElems(MaxAuthorElems)},
     journal1 : {<<>>, <<Elem(<<"J">>)>>},
     journal2 : {<<>>},
     date1    : {<<>>} \cup {<<Elem(t)>> : t \in Date1Texts},
     date2    : {<<>>},
     doi      : {<<>>, <<Elem(<<"10.1/xyz">>)>>, <<ElemNoAttr>>}]

\* requests.get: a transport error or timeout, a response with an error
\* status, or a response with a success status
FetchOutcomes(pages) ==
    {[status |-> "transport_error"]}
    \cup {[status |-> s, doc |-> d] : s \in {"http_error", "ok"}, d \in pages}

\* requests.get followed by response.raise_for_status()
Raises(fr) == fr.status # "ok"

\* requests.get alone: only a transport error raises
RaisesTransport(fr) == fr.status = "transport_error"

-----------------------------------------------------------------------------
(* scripts/paper_searcher.py: get_paper_details *)

MaxAuthors == 5

Texts(elems) == [i \in 1..Len(elems) |-> elems[i].text]

\* text[:4] if len(text) >= 4 else text
YearOf(text) == IF Len(text) >= 4 THEN Prefix(text, 4) ELSE text

\* the year key is set only when the element exists
YearField(elem) == IF elem # None THEN [year |-> Some(YearOf(Val(elem).text))]
                   ELSE Fld("year", {})

TextOrNone(elem) == IF elem # None THEN Some(Val(elem).text) ELSE None

\* elem['content'] if elem else default; the subscript raises KeyError when
\* the tag has no content attribute
ContentRaises(elem) == elem # None /\ Val(elem).content = None

ContentOr(elem, default) == IF elem # None THEN Val(elem).content ELSE default

CnkiDetails(doc) ==
    [title   |-> TextOrNone(OrElse(select_one(doc.title1), select_one(doc.title2))),
     authors |-> Some(Texts(Prefix(doc.authors, MaxAuthors))),
     journal |-> TextOrNone(OrElse(select_one(doc.journal1), select_one(doc.journal2))),
     doi     |-> ContentOr(select_one(doc.doi), None)]
    @@ YearField(OrElse(select_one(doc.date1), select_one(doc.date2)))

ArxivYear(elem) ==
    IF elem # None THEN [year |-> Some(Prefix(Val(Val(elem).content), 4))]
    ELSE Fld("year", {})

ArxivDetails(doc) ==
    [title   |-> ContentOr(select_one(doc.title1), None),
     authors |-> Some(Texts(doc.authors)),
     journal |-> ContentOr(select_one(doc.journal1), Some(<<"arXiv">>)),
     doi     |-> ContentOr(select_one(doc.doi), None)]
    @@ ArxivYear(select_one(doc.date1))

OpenalexDetails(doc) ==
    [title   |-> TextOrNone(OrElse(select_one(doc.title1), select_one(doc.title2))),
     authors |-> Some(Texts(Prefix(doc.authors, MaxAuthors))),
     journal |-> TextOrNone(OrElse(select_one(doc.journal1), select_one(doc.journal2))),
     doi     |-> None]
    @@ YearField(OrElse(select_one(doc.date1), select_one(doc.date2)))

\* a KeyError raised inside the try block of get_paper_details
DetailsKeyError(plat, doc) ==
    \/ /\ plat = "cnki"
       /\ ContentRaises(select_one(doc.doi))
    \/ /\ plat = "arxiv"
       /\ \/ ContentRaises(select_one(doc.title1))
          \/ ContentRaises(select_one(doc.journal1))
          \/ ContentRaises(select_one(doc.date1))
          \/ ContentRaises(select_one(doc.doi))

\* an extractor that refuses a platform it has no branch for
get_paper_details_checked(url, plat, fr) ==
    IF plat \notin {"cnki", "arxiv", "openalex"} \/ Raises(fr) THEN None
    ELSE IF DetailsKeyError(plat, fr.doc) THEN None
    ELSE Some([url |-> Some(url), platform |-> plat]
              @@ (IF plat = "cnki" THEN CnkiDetails(fr.doc)
                  ELSE IF plat = "arxiv" THEN ArxivDetails(fr.doc)
                  ELSE OpenalexDetails(fr.doc)))

\* an extractor that reads wanfang and cqvip pages with the cnki selectors
get_paper_details_cnki_like(url, plat, fr) ==
    IF Raises(fr) THEN None
    ELSE IF DetailsKeyError(plat, fr.doc) THEN None
    ELSE Some([url |-> Some(url), platform |-> plat]
              @@ (IF plat \in {"cnki", "wanfang", "cqvip"} THEN CnkiDetails(fr.doc)
                  ELSE IF plat = "arxiv" THEN ArxivDetails(fr.doc)
                  ELSE IF plat = "openalex" THEN OpenalexDetails(fr.doc)
                  ELSE Fld("title", {})))

\* Optional[Dict]: None when the fetch or the parsing raised
get_paper_details(url, plat, fr) ==
    IF Raises(fr) THEN None
    ELSE IF DetailsKeyError(plat, fr.doc) THEN None
    ELSE Some([url |-> Some(url), platform |-> plat]
              @@ (IF plat = "cnki" THEN CnkiDetails(fr.doc)
                  ELSE IF plat = "arxiv" THEN ArxivDetails(fr.doc)
                  ELSE IF plat = "openalex" THEN OpenalexDetails(fr.doc)
                  ELSE Fld("title", {})))

-----------------------------------------------------------------------------
(* scripts/thesis_paper_searcher.py: get_cnki_paper_details,               *)
(* get_arxiv_paper_details                                                 *)

Digits == {"0", "1", "2", "3", "4", "5", "6", "7", "8", "9"}

\* re.search(r'(\d{4})', text): the start of the first run of four digits,
\* 0 when there is none
FirstYearRun(text) ==
    LET hits == {i \in 1..(Len(text) - 3) :
                    \A k \in 0..3 : text[i + k] \in Digits}
    IN IF hits = {} THEN 0 ELSE CHOOSE i \in hits : \A j \in hits : i <= j

ThesisCnkiYear(elem) ==
    IF elem # None
    THEN LET text == Val(elem).text
             m == FirstYearRun(text)
         IN [year |-> Some(IF m > 0 THEN SubSeq(text, m, m + 3)
                           ELSE Prefix(text, 4))]
    ELSE Fld("year", {})

ThesisCnkiInfo(url, doc) ==
    [url      |-> Some(url),
     platform |-> "cnki",
     title    |-> TextOrNone(OrElse(select_one(doc.title1), select_one(doc.title2))),
     authors  |-> Some(Texts(Prefix(doc.authors, MaxAuthors))),
     journal  |-> TextOrNone(select_one(doc.journal1)),
     doi      |-> ContentOr(select_one(doc.doi), None)]
    @@ ThesisCnkiYear(select_one(doc.date1))

\* return paper_info if paper_info.get('title') else None
get_cnki_paper_details(url, fr) ==
    IF RaisesTransport(fr) THEN None
    ELSE IF ContentRaises(select_one(fr.doc.doi)) THEN None
    ELSE IF Truthy(ThesisCnkiInfo(url, fr.doc).title)
         THEN Some(ThesisCnkiInfo(url, fr.doc))
         ELSE None

ThesisArxivInfo(url, doc) ==
    [url      |-> Some(url),
     platform |-> "arxiv",
     title    |-> ContentOr(select_one(doc.title1), None),
     authors  |-> Some(Texts(doc.authors)),
     journal  |-> ContentOr(select_one(doc.journal1), Some(<<"arXiv preprint">>)),
     year     |-> IF select_one(doc.date1) # None
                  THEN Some(Prefix(Val(Val(select_one(doc.date1)).content), 4))
                  ELSE None,
     doi      |-> ContentOr(select_one(doc.doi), None)]

get_arxiv_paper_details(url, fr) ==
    IF RaisesTransport(fr) THEN None
    ELSE IF DetailsKeyError("arxiv", fr.doc) THEN None
    ELSE IF Truthy(ThesisArxivInfo(url, fr.doc).title)
         THEN Some(ThesisArxivInfo(url, fr.doc))
         ELSE None

-----------------------------------------------------------------------------
(* scripts/paper_searcher.py: search_papers *)

\* the keys of search_urls
SearchPlatforms == {"cnki", "wanfang", "cqvip", "arxiv", "openalex"}

\* a platform that is no key of search_urls
AllPlatforms == SearchPlatforms \cup {"pubmed"}

\* A search page is the list of the items its result selector yields, in
\* document order ('.result-list li', '.search-list li', '.list-lst',
\* '.work'); an item is what select_one('a') finds in it: None (no link),
\* Some(None) (a link without href) or Some(Some(href))
NoLink == None

NoHref == Some(None)

\* the href of the i-th item of a page: /p/i, /p/ii, /p/iii, ...
Href(i) == <<"/p/">> \o [k \in 1..i |-> "i"]

Link(i) == Some(Some(Href(i)))

MaxItems == 3

SearchPages ==
    UNION {[1..n -> {"nolink", "nohref", "link"}] : n \in 0..MaxItems}

\* the items of a page drawn from SearchPages
Items(page) ==
    [i \in 1..Len(page) |->
        IF page[i] = "nolink" THEN NoLink
        ELSE IF page[i] = "nohref" THEN NoHref
        ELSE Link(i)]

\* link and link.get('href')
HasHref(item) == item # None /\ Truthy(Val(item))

\* the prefix put before link['href']
BaseOf(plat) ==
    IF plat = "arxiv" THEN <<"https://arxiv.org">>
    ELSE IF plat = "openalex" THEN <<"https://openalex.org">>
    ELSE <<>>

RECURSIVE CollectLinks(_, _)
\* for item in items: if link and link.get('href'): urls.append(...)
CollectLinks(items, base) ==
    IF items = <<>> THEN <<>>
    ELSE (IF HasHref(Head(items)) THEN <<base \o Val(Val(Head(items)))>>
          ELSE <<>>)
         \o CollectLinks(Tail(items), base)

\* a resolver that forgets the [:max_results] slice
ResolveUrls_uncapped(plat, cap, items) == CollectLinks(items, BaseOf(plat))

ResolveUrls(plat, cap, items) == CollectLinks(Prefix(items, cap), BaseOf(plat))

\* a resolver that accepts every platform
SearchRaisesValueError_never(plat) == FALSE

\* if platform not in search_urls: raise ValueError
SearchRaisesValueError(plat) == plat \notin SearchPlatforms

-----------------------------------------------------------------------------
(* scripts/thesis_paper_searcher.py: search_cnki, search_arxiv, and the    *)
(* dedup loop of main                                                      *)

\* try: get, parse, collect the links of items[:max_results];
\* except Exception: return []. No raise_for_status: the page of an error
\* response is parsed like any other.
search_cnki(cap, fr) ==
    IF RaisesTransport(fr) THEN <<>>
    ELSE CollectLinks(Prefix(Items(fr.doc), cap), <<>>)

search_arxiv(cap, fr) ==
    IF RaisesTransport(fr) THEN <<>>
    ELSE CollectLinks(Prefix(Items(fr.doc), cap), <<"https://arxiv.org">>)

\* title = paper.get('title', '').strip()
DedupTitle(p) == Strip(Val(Get(p, "title", Some(<<>>))))

\* a loop body that keeps every record with a title
DedupeBody_no_seen_test(st, p) ==
    IF DedupTitle(p) # <<>>
    THEN [seen |-> st.seen \cup {DedupTitle(p)}, unique |-> Append(st.unique, p)]
    ELSE st

\* a loop body that forgets the test for an empty title
DedupeBody_no_empty_test(st, p) ==
    IF DedupTitle(p) \notin st.seen
    THEN [seen |-> st.seen \cup {DedupTitle(p)}, unique |-> Append(st.unique, p)]
    ELSE st

\* if title and title not in seen_titles: add, append
DedupeBody(st, p) ==
    IF DedupTitle(p) # <<>> /\ DedupTitle(p) \notin st.seen
    THEN [seen |-> st.seen \cup {DedupTitle(p)}, unique |-> Append(st.unique, p)]
    ELSE st

RECURSIVE DedupeFrom_skip_after_drop(_, _)
\* a loop that deletes the dropped record from the list it iterates over:
\* the record after a dropped one is stepped over, and so stays, untested
DedupeFrom_skip_after_drop(st, all) ==
    IF all = <<>> THEN st
    ELSE IF DedupeBody(st, Head(all)) # st
         THEN DedupeFrom_skip_after_drop(DedupeBody(st, Head(all)), Tail(all))
         ELSE IF Tail(all) = <<>> THEN st
         ELSE DedupeFrom_skip_after_drop(
                  [st EXCEPT !.unique = Append(st.unique, Head(Tail(all)))],
                  Tail(Tail(all)))

RECURSIVE DedupeFrom(_, _)
\* for paper in all_papers
DedupeFrom(st, all) ==
    IF all = <<>> THEN st ELSE DedupeFrom(DedupeBody(st, Head(all)), Tail(all))

Dedupe(all) == DedupeFrom([seen |-> {}, unique |-> <<>>], all)

-----------------------------------------------------------------------------
(* The log of network fetches and sleeps *)

FetchSearch == [op |-> "fetch_search"]

FetchDetail(url) == [op |-> "fetch_detail", url |-> url]

Sleep == [op |-> "sleep"]

-----------------------------------------------------------------------------
(* Entry points that are idle in a specification keep these values *)

IdleCall ==
    /\ platform = "cnki" /\ max_results = 0
    /\ soup = None /\ urls = <<>> /\ ui = 0 /\ papers = <<>>
    /\ log = <<>> /\ exc = None /\ dsoup = None /\ kwi = 0

IdleDedup == seen_titles = {} /\ unique_papers = <<>>

IdleOut == ref = None /\ valid = None

-----------------------------------------------------------------------------
(* verify_reference applied to a record *)

InitVerify ==
    /\ pc = "verify_reference"
    /\ \E r \in RecordPool : paper = Some(r)
    /\ IdleCall /\ IdleDedup /\ IdleOut

VerifyReference ==
    /\ pc = "verify_reference"
    /\ valid' = Some(verify_reference(Val(paper)))
    /\ pc' = "verified"
    /\ UNCHANGED <<platform, max_results, soup, urls, ui, papers, log, exc,
                   dsoup, paper, ref, seen_titles, unique_papers, kwi>>

NextVerify == VerifyReference

SpecVerify == InitVerify /\ [][NextVerify]_vars

-----------------------------------------------------------------------------
(* generate_reference applied to a record *)

\* the url the extractors are called on when they are the entry point
DirectUrl == <<"http://u/1">>

\* the records the three detail extractors return for the pages of
\* DetailPages
ExtractedRecords ==
    LET outs == {get_paper_details(DirectUrl, plat, fr) :
                    plat \in AllPlatforms, fr \in FetchOutcomes(DetailPages)}
                \cup {get_cnki_paper_details(DirectUrl, fr) :
                         fr \in FetchOutcomes(DetailPages)}
                \cup {get_arxiv_paper_details(DirectUrl, fr) :
                         fr \in FetchOutcomes(DetailPages)}
    IN {Val(r) : r \in outs \ {None}}

InitFormat ==
    /\ pc = "generate_reference"
    /\ \E r \in RecordPool \cup ExtractedRecords : paper = Some(r)
    /\ IdleCall /\ IdleDedup /\ IdleOut

GenerateReference ==
    /\ pc = "generate_reference"
    /\ ref' = Some(generate_reference(Val(paper)))
    /\ pc' = "formatted"
    /\ UNCHANGED <<platform, max_results, soup, urls, ui, papers, log, exc,
                   dsoup, paper, valid, seen_titles, unique_papers, kwi>>

NextFormat == GenerateReference

SpecFormat == InitFormat /\ [][NextFormat]_vars


-----------------------------------------------------------------------------
(* scripts/paper_searcher.py: search_and_extract, and get_paper_details  *)
(* called on its own                                                       *)

MaxCap == 2

BlankPage ==
    [title1 |-> <<>>, title2 |-> <<>>, authors |-> <<>>, journal1 |-> <<>>,
     journal2 |-> <<>>, date1 |-> <<>>, date2 |-> <<>>, doi |-> <<>>]

TitledPage == [BlankPage EXCEPT !.title1 = <<Elem(<<"T">>)>>]

\* the detail pages served inside the loops
LoopPages == {BlankPage, TitledPage}

InitSearch ==
    /\ pc \in {"search_papers", "get_paper_details"}
    /\ platform \in AllPlatforms
    /\ max_results \in 1..MaxCap
    /\ soup = None /\ urls = <<>> /\ ui = 0 /\ papers = <<>>
    /\ log = <<>> /\ exc = None /\ dsoup = None /\ kwi = 0
    /\ paper = None
    /\ IdleDedup /\ IdleOut

\* urls = search_papers(keyword, platform, max_results)
SearchPapers ==
    /\ pc = "search_papers"
    /\ \/ /\ SearchRaisesValueError(platform)
          /\ exc' = Some("ValueError")
          /\ pc' = "raised"
          /\ UNCHANGED <<soup, urls, ui, log>>
       \/ /\ ~SearchRaisesValueError(platform)
          /\ \E fr \in FetchOutcomes(SearchPages) :
                /\ log' = Append(log, FetchSearch)
                /\ IF Raises(fr)
                   THEN /\ exc' = Some("RequestException")
                        /\ pc' = "raised"
                        /\ UNCHANGED <<soup, urls, ui>>
                   ELSE /\ soup' = Some(Items(fr.doc))
                        /\ urls' = ResolveUrls(platform, max_results, Items(fr.doc))
                        /\ ui' = 1
                        /\ pc' = "loop"
                        /\ exc' = exc
    /\ UNCHANGED <<platform, max_results, papers, dsoup, paper, ref, valid,
                   seen_titles, unique_papers, kwi>>

\* one iteration of: for url in urls
ExtractNext ==
    /\ pc = "loop"
    /\ ui <= Len(urls)
    /\ \E fr \in FetchOutcomes(LoopPages) :
          LET p == get_paper_details(urls[ui], platform, fr)
          IN /\ paper' = p
             /\ dsoup' = Some(fr)
             /\ papers' = IF p # None /\ Truthy(Get(Val(p), "title", None))
                          THEN Append(papers, Val(p))
                          ELSE papers
    /\ log' = log \o <<FetchDetail(urls[ui]), Sleep>>
    /\ ui' = ui + 1
    /\ UNCHANGED <<pc, platform, max_results, soup, urls, exc, ref, valid,
                   seen_titles, unique_papers, kwi>>

\* return papers
ReturnPapers ==
    /\ pc = "loop"
    /\ ui > Len(urls)
    /\ pc' = "returned"
    /\ UNCHANGED <<platform, max_results, soup, urls, ui, papers, log, exc,
                   dsoup, paper, ref, valid, seen_titles, unique_papers, kwi>>

\* get_paper_details(url, platform) called by itself
DirectDetails ==
    /\ pc = "get_paper_details"
    /\ \E fr \in FetchOutcomes(DetailPages) :
          /\ paper' = get_paper_details(DirectUrl, platform, fr)
          /\ dsoup' = Some(fr)
    /\ log' = Append(log, FetchDetail(DirectUrl))
    /\ pc' = "returned_details"
    /\ UNCHANGED <<platform, max_results, soup, urls, ui, papers, exc, ref,
                   valid, seen_titles, unique_papers, kwi>>

NextSearch == SearchPapers \/ ExtractNext \/ ReturnPapers \/ DirectDetails

SpecSearch == InitSearch /\ [][NextSearch]_vars


-----------------------------------------------------------------------------
(* scripts/thesis_paper_searcher.py: main *)

\* keywords[:2], for each of the two platforms
KeywordSlice == 2

\* urls[:3]
UrlSlice == 3

\* search_cnki(kw, 5), search_arxiv(kw, 5)
MainCap == 5

MainMaxItems == 4

\* the search pages served to main: n items, each with a link
MainSearchPages == {[i \in 1..n |-> "link"] : n \in 0..MainMaxItems}

\* the platform of the kwi-th keyword iteration: cnki first, then arxiv
MainPlatform(k) == IF k <= KeywordSlice THEN "cnki" ELSE "arxiv"

InitMain ==
    /\ pc = "main_search"
    /\ kwi = 1
    /\ platform = "cnki" /\ max_results = MainCap
    /\ soup = None /\ urls = <<>> /\ ui = 0 /\ papers = <<>>
    /\ log = <<>> /\ exc = None /\ dsoup = None
    /\ paper = None
    /\ IdleDedup /\ IdleOut

\* urls = search_cnki(kw, 5) / search_arxiv(kw, 5)
MainSearch ==
    /\ pc = "main_search"
    /\ \E fr \in FetchOutcomes(MainSearchPages) :
          urls' = IF MainPlatform(kwi) = "cnki"
                  THEN search_cnki(MainCap, fr)
                  ELSE search_arxiv(MainCap, fr)
    /\ log' = Append(log, FetchSearch)
    /\ ui' = 1
    /\ pc' = "main_loop"
    /\ UNCHANGED <<platform, max_results, soup, papers, exc, dsoup, paper, ref,
                   valid, seen_titles, unique_papers, kwi>>

\* one iteration of: for url in urls[:3]
MainExtract ==
    /\ pc = "main_loop"
    /\ ui <= Len(Prefix(urls, UrlSlice))
    /\ \E fr \in FetchOutcomes(LoopPages) :
          LET p == IF MainPlatform(kwi) = "cnki"
                   THEN get_cnki_paper_details(urls[ui], fr)
                   ELSE get_arxiv_paper_details(urls[ui], fr)
          IN papers' = IF p # None /\ Truthy(Get(Val(p), "title", None))
                       THEN Append(papers, Val(p))
                       ELSE papers
    /\ log' = Append(log, FetchDetail(urls[ui]))
    /\ ui' = ui + 1
    /\ UNCHANGED <<pc, platform, max_results, soup, urls, exc, dsoup, paper,
                   ref, valid, seen_titles, unique_papers, kwi>>

\* time.sleep(1), at the end of the iteration of the keyword loop
MainSleep ==
    /\ pc = "main_loop"
    /\ ui > Len(Prefix(urls, UrlSlice))
    /\ log' = Append(log, Sleep)
    /\ kwi' = kwi + 1
    /\ pc' = IF kwi = 2 * KeywordSlice THEN "main_dedupe" ELSE "main_search"
    /\ UNCHANGED <<platform, max_results, soup, urls, ui, papers, exc, dsoup,
                   paper, ref, valid, seen_titles, unique_papers>>

\* the dedup loop, json.dump and return unique_papers
MainDedupe ==
    /\ pc = "main_dedupe"
    /\ seen_titles' = Dedupe(papers).seen
    /\ unique_papers' = Dedupe(papers).unique
    /\ pc' = "main_done"
    /\ UNCHANGED <<platform, max_results, soup, urls, ui, papers, log, exc,
                   dsoup, paper, ref, valid, kwi>>

NextMain == MainSearch \/ MainExtract \/ MainSleep \/ MainDedupe

SpecMain == InitMain /\ [][NextMain]_vars

-----------------------------------------------------------------------------
(* The dedup loop of main applied to a list of records *)

MaxPapers == 3

\* titles as main can collect them: non-empty strings. The first three stand
\* for "Graph Theory", "graph   theory" and "Other"
TitlePool ==
    {<<"G", " ", "T">>, <<"g", " ", " ", " ", "t">>, <<"O">>,
     <<" ", "O", " ">>, <<"g", " ", "t">>, <<" ">>}

DedupRecord(i, t) ==
    [url |-> Some(Href(i)), platform |-> "cnki", title |-> Some(t),
     authors |-> Some(<<>>), journal |-> None, doi |-> None]

InitDedupe ==
    /\ pc = "dedupe"
    /\ \E n \in 0..MaxPapers :
          \E ts \in [1..n -> TitlePool] :
             papers = [i \in 1..n |-> DedupRecord(i, ts[i])]
    /\ ui = 1
    /\ seen_titles = {} /\ unique_papers = <<>>
    /\ platform = "cnki" /\ max_results = 0
    /\ soup = None /\ urls = <<>> /\ log = <<>> /\ exc = None
    /\ dsoup = None /\ kwi = 0 /\ paper = None
    /\ IdleOut

\* one iteration of: for paper in all_papers
DedupeNext ==
    /\ pc = "dedupe"
    /\ ui <= Len(papers)
    /\ LET st == DedupeBody([seen |-> seen_titles, unique |-> unique_papers],
                            papers[ui])
       IN /\ seen_titles' = st.seen
          /\ unique_papers' = st.unique
    /\ ui' = ui + 1
    /\ UNCHANGED <<pc, platform, max_results, soup, urls, papers, log, exc,
                   dsoup, paper, ref, valid, kwi>>

\* the loop is over: unique_papers is saved and returned
DedupeDone ==
    /\ pc = "dedupe"
    /\ ui > Len(papers)
    /\ pc' = "deduped"
    /\ UNCHANGED <<platform, max_results, soup, urls, ui, papers, log, exc,
                   dsoup, paper, ref, valid, seen_titles, unique_papers, kwi>>

NextDedupe == DedupeNext \/ DedupeDone

SpecDedupe == InitDedupe /\ [][NextDedupe]_vars

-----------------------------------------------------------------------------
(* The dedup of main applied to a list of records, and then to its own     *)
(* output                                                                  *)

InitDedupeTwice == InitDedupe

\* unique_papers = dedupe(all_papers)
DedupeOnce ==
    /\ pc = "dedupe"
    /\ seen_titles' = Dedupe(papers).seen
    /\ unique_papers' = Dedupe(papers).unique
    /\ pc' = "deduped_once"
    /\ UNCHANGED <<platform, max_results, soup, urls, ui, papers, log, exc,
                   dsoup, paper, ref, valid, kwi>>

\* unique_papers = dedupe(unique_papers)
DedupeAgain ==
    /\ pc = "deduped_once"
    /\ seen_titles' = Dedupe(unique_papers).seen
    /\ unique_papers' = Dedupe(unique_papers).unique
    /\ pc' = "deduped_twice"
    /\ UNCHANGED <<platform, max_results, soup, urls, ui, papers, log, exc,
                   dsoup, paper, ref, valid, kwi>>

NextDedupeTwice == DedupeOnce \/ DedupeAgain

SpecDedupeTwice == InitDedupeTwice /\ [][NextDedupeTwice]_vars

-----------------------------------------------------------------------------
(* Properties of verify_reference (SpecVerify) *)

\* the key is present and its value is neither None nor empty
HasText(p, k) == k \in DOMAIN p /\ p[k] # None /\ p[k] # Some(<<>>)

\* the record with key k omitted (c = {}) or set to the value in c
WithField(p, k, c) == [x \in DOMAIN p \ {k} |-> p[x]] @@ Fld(k, c)

OtherFieldChoices ==
    [authors  |-> AuthorsChoices, journal |-> JournalChoices,
     year     |-> YearChoices,    doi     |-> DoiChoices,
     platform |-> PlatformChoices]

\* C10: verify(record) is true iff title and url are both present and
\* non-empty, and omitting or changing any other field (authors, journal,
\* year, doi, platform) leaves the result as it is.
VerifyIffTitleAndUrl ==
    pc = "verified" =>
        LET p == Val(paper)
        IN /\ Val(valid) = (HasText(p, "title") /\ HasText(p, "url"))
           /\ \A k \in DOMAIN OtherFieldChoices :
                 \A c \in OtherFieldChoices[k] :
                    verify_reference(WithField(p, k, c)) = Val(valid)

\* a record with title and url, no authors key and a null doi is accepted
VerifyAcceptsSparseRecord ==
    /\ pc = "verified"
    /\ valid = Some(TRUE)
    /\ "authors" \notin DOMAIN Val(paper)
    /\ "doi" \in DOMAIN Val(paper)
    /\ Val(paper)["doi"] = None

-----------------------------------------------------------------------------
(* Properties of generate_reference (SpecFormat) *)

\* C8: the citation contains "DOI: <doi>" when doi is present and non-empty,
\* contains no "DOI: " when it is not (no field of the pool holds that
\* text), and ends with the "SourceURL: <url>" line when url is present and
\* non-empty.
CitationReflectsDoi ==
    pc = "formatted" =>
        LET p == Val(paper)
            r == Val(ref)
        IN /\ HasText(p, "doi") => Contains(r, <<"DOI: ">> \o Val(p["doi"]))
           /\ ~HasText(p, "doi") => ~Contains(r, <<"DOI: ">>)
           /\ HasText(p, "url") =>
                 EndsWith(r, <<"\nSourceURL: ">> \o Val(p["url"]))

\* a record with a doi and a url has been formatted
CitationWithDoiAndUrl ==
    /\ pc = "formatted"
    /\ HasText(Val(paper), "doi")
    /\ HasText(Val(paper), "url")
    /\ ~HasText(Val(paper), "title")

\* the key is omitted or its value is None
Missing(p, k) == k \notin DOMAIN p \/ p[k] = None

\* C9: for a record the Detail Extractor produced, a missing authors, title,
\* journal or year (key omitted or value None) is rendered as the field's
\* placeholder, never as the text of None.
MissingFieldsRenderPlaceholders ==
    pc = "formatted" /\ Val(paper) \in ExtractedRecords =>
        LET p == Val(paper)
            r == Val(ref)
        IN /\ Missing(p, "authors") =>
                 Contains(r, <<"[N] ">> \o UnknownAuthors \o <<". ">>)
           /\ Missing(p, "title") =>
                 Contains(r, <<". ">> \o UnknownTitle \o <<"[J]. ">>)
           /\ Missing(p, "journal") =>
                 Contains(r, <<"[J]. ">> \o UnknownJournal \o <<", ">>)
           /\ Missing(p, "year") => Contains(r, <<", ">> \o UnknownYear)
           /\ ~Contains(r, <<"None">>)

-----------------------------------------------------------------------------
(* Properties of search_papers, get_paper_details and search_and_extract   *)
(* (SpecSearch)                                                            *)

\* C3: an Unreachable failure (on the search page or on a detail page) or a
\* NoTitle failure never aborts the run: for a supported platform no
\* exception leaves search_and_extract.
FailuresNeverAbortRun ==
    platform \in SearchPlatforms => exc = None

\* the platforms get_paper_details has a branch for
DetailPlatforms == {"cnki", "arxiv", "openalex"}

\* C4: the Detail Extractor never returns a record whose title is absent or
\* empty: when no title selector yields text it returns a failure.
ExtractorNeverReturnsUntitled ==
    pc = "returned_details" /\ platform \in DetailPlatforms /\ paper # None =>
        HasText(Val(paper), "title")

\* the links of all the items of a page, in document order
AllLinks(plat, items) == CollectLinks(items, BaseOf(plat))

\* C5 as stated: resolve returns exactly the first min(n, cap) of the n
\* matching result links of the page, in document order.
ResolveReturnsFirstLinks ==
    soup # None =>
        urls = Prefix(AllLinks(platform, Val(soup)), max_results)

\* positions, among the first cap items, of the items that carry a link
CappedLinkItems ==
    {i \in 1..Min(Len(Val(soup)), max_results) : HasHref(Val(soup)[i])}

\* C5 as amended: resolve returns the links carried by the first
\* min(m, cap) of the m result items, in document order, items without a
\* link being skipped: never more than cap urls, and exactly min(m, cap)
\* when each of those items carries a link.
ResolveReturnsLinksOfFirstItems ==
    soup # None =>
        /\ Len(urls) <= max_results
        /\ Len(urls) = Cardinality(CappedLinkItems)
        /\ \A i \in CappedLinkItems :
              urls[Cardinality({j \in CappedLinkItems : j <= i})]
                 = BaseOf(platform) \o Val(Val(Val(soup)[i]))
        /\ (\A i \in 1..Min(Len(Val(soup)), max_results) :
               HasHref(Val(soup)[i]))
              => Len(urls) = Min(Len(Val(soup)), max_results)

\* a page with more linked items than the cap has been truncated
ResolveTruncated ==
    /\ soup # None
    /\ Len(AllLinks(platform, Val(soup))) > max_results
    /\ Len(urls) = max_results

\* C6 as stated: for search and for detail extraction alike, an unsupported
\* platform makes the call fail before any fetch is issued.
UnsupportedPlatformFailsBeforeFetch ==
    platform \notin SearchPlatforms =>
        /\ log = <<>>
        /\ pc \in {"search_papers", "get_paper_details", "raised"}

\* C6 as amended: search_papers (and so search_and_extract) raises
\* ValueError for an unsupported platform before any fetch; get_paper_details
\* checks no platform: it fetches the page and returns None or a record that
\* holds only url and platform.
UnsupportedPlatformRaisesInSearchOnly ==
    platform \notin SearchPlatforms =>
        /\ pc \in {"search_papers", "raised"} => log = <<>>
        /\ pc \notin {"loop", "returned"}
        /\ pc = "raised" => exc = Some("ValueError")
        /\ pc = "returned_details" =>
              /\ log = <<FetchDetail(DirectUrl)>>
              /\ \/ paper = None
                 \/ DOMAIN Val(paper) = {"url", "platform"}

\* search_papers has raised for an unsupported platform
UnsupportedPlatformRaised ==
    /\ platform \notin SearchPlatforms
    /\ pc = "raised"
    /\ exc = Some("ValueError")
    /\ log = <<>>


-----------------------------------------------------------------------------
(* Properties of main (SpecMain) *)

\* C7: between every two successive detail-page fetches of a run, within a
\* keyword or across keywords, a delay step occurs.
DelayBetweenDetailFetches ==
    \A i \in DOMAIN log : \A j \in DOMAIN log :
        (i < j /\ log[i].op = "fetch_detail" /\ log[j].op = "fetch_detail")
            => \E k \in DOMAIN log : i < k /\ k < j /\ log[k] = Sleep

-----------------------------------------------------------------------------
(* Properties of the dedup loop (SpecDedupe) *)

\* str.casefold on the letters of TitlePool
Lower(c) ==
    IF c = "G" THEN "g" ELSE IF c = "T" THEN "t" ELSE IF c = "O" THEN "o" ELSE c

CaseFold(t) == [i \in DOMAIN t |-> Lower(t[i])]

RECURSIVE Collapse(_)
\* every run of whitespace becomes one space
Collapse(t) ==
    IF t = <<>> THEN <<>>
    ELSE IF Head(t) \in Whitespace
         THEN <<" ">> \o Collapse(LStrip(t))
         ELSE <<Head(t)>> \o Collapse(Tail(t))

\* the normalized title: trimmed, whitespace collapsed, case-folded
NormalizedKey(p) == CaseFold(Collapse(Strip(Val(p["title"]))))

\* the trimmed title
TrimmedKey(p) == Strip(Val(p["title"]))

\* positions of the records that are first with their non-empty key
FirstOfGroup(all, Key(_)) ==
    {i \in DOMAIN all :
        /\ Key(all[i]) # <<>>
        /\ \A j \in DOMAIN all : j < i => Key(all[j]) # Key(all[i])}

RECURSIVE PickFrom(_, _, _)
\* the records of all at the positions of I, in their order
PickFrom(all, I, i) ==
    IF i > Len(all) THEN <<>>
    ELSE (IF i \in I THEN <<all[i]>> ELSE <<>>) \o PickFrom(all, I, i + 1)

HasNormalizedKey(p) == NormalizedKey(p) # <<>>

HasTrimmedKey(p) == TrimmedKey(p) # <<>>

\* C1 as stated: among the records with a non-empty normalized title
\* (trimmed, whitespace collapsed, case-folded), the output holds exactly the
\* first record of each group of equal normalized titles, in input order.
DedupeKeepsFirstOfNormalizedGroup ==
    pc = "deduped" =>
        SelectSeq(unique_papers, HasNormalizedKey)
            = PickFrom(papers, FirstOfGroup(papers, NormalizedKey), 1)

\* C1 as amended: among the records with a non-empty trimmed title, the
\* output holds exactly the first record of each group of equal trimmed
\* titles (compared as they are: case and inner whitespace count), in input
\* order.
DedupeKeepsFirstOfTrimmedGroup ==
    pc = "deduped" =>
        SelectSeq(unique_papers, HasTrimmedKey)
            = PickFrom(papers, FirstOfGroup(papers, TrimmedKey), 1)

\* three records, two of them with the same trimmed title, have been
\* deduplicated to two
DedupeDroppedDuplicate ==
    /\ pc = "deduped"
    /\ Len(papers) = 3
    /\ Len(unique_papers) = 2
    /\ TrimmedKey(papers[1]) = TrimmedKey(papers[2])
    /\ papers[1]["title"] # papers[2]["title"]

\* C2 as stated: every record whose normalized title is empty appears in
\* the output.
DedupeKeepsEmptyTitles ==
    pc = "deduped" =>
        \A i \in DOMAIN papers :
            ~HasNormalizedKey(papers[i])
                => \E j \in DOMAIN unique_papers : unique_papers[j] = papers[i]

\* C2 as amended: every record whose trimmed title is empty is dropped: no
\* record of the output has an empty trimmed title.
DedupeDropsEmptyTitles ==
    pc = "deduped" =>
        \A i \in DOMAIN papers :
            ~HasTrimmedKey(papers[i])
                => \A j \in DOMAIN unique_papers : unique_papers[j] # papers[i]

\* a list with a whitespace-only title and a titled record has been
\* deduplicated
DedupeSawEmptyTitle ==
    /\ pc = "deduped"
    /\ \E i \in DOMAIN papers : ~HasTrimmedKey(papers[i])
    /\ unique_papers # <<>>


-----------------------------------------------------------------------------
(* Properties of the dedup applied twice (SpecDedupeTwice) *)

\* C11: deduplication is idempotent: for any input sequence x,
\* dedupe(dedupe(x)) == dedupe(x).
DedupeIdempotent ==
    pc = "deduped_twice" => unique_papers = Dedupe(papers).unique

\* the first pass dropped a duplicate and a whitespace-only title, and the
\* second pass ran on the one record that was left
DedupeTwiceAfterDrops ==
    /\ pc = "deduped_twice"
    /\ Len(papers) = 3
    /\ Len(unique_papers) = 1
    /\ \E i \in DOMAIN papers : ~HasTrimmedKey(papers[i])
    /\ \E i \in DOMAIN papers : \E j \in DOMAIN papers :
          i < j /\ HasTrimmedKey(papers[i])
                /\ TrimmedKey(papers[i]) = TrimmedKey(papers[j])


-----------------------------------------------------------------------------
(* Properties of search_and_extract on the platforms that search_papers    *)
(* accepts and get_paper_details has no branch for (SpecSearch)            *)

SearchOnlyPlatforms == SearchPlatforms \ DetailPlatforms

IsFetchDetail(e) == e.op = "fetch_detail"

\* C12: for platform wanfang or cqvip the search step is accepted (no
\* ValueError), every resolved url is fetched, in order, each record
\* extracted holds only url and platform, and search_and_extract returns an
\* empty list whatever the pages hold.
SearchOnlyPlatformsReturnNothing ==
    platform \in SearchOnlyPlatforms /\ pc \in {"search_papers", "raised", "loop", "returned"} =>
        /\ exc # Some("ValueError")
        /\ papers = <<>>
        /\ pc \in {"loop", "returned"} =>
              /\ SelectSeq(log, IsFetchDetail)
                    = [i \in 1..(ui - 1) |-> FetchDetail(urls[i])]
              /\ pc = "returned" => ui - 1 = Len(urls)
              /\ dsoup # None =>
                    paper = IF Raises(Val(dsoup)) THEN None
                            ELSE Some([url |-> Some(urls[ui - 1]),
                                       platform |-> platform])

\* search_and_extract on wanfang has returned after two detail fetches, the
\* last of a page that carries a title
SearchOnlyPlatformFetchedTitledPage ==
    /\ platform = "wanfang"
    /\ pc = "returned"
    /\ Len(urls) = 2
    /\ dsoup = Some([status |-> "ok", doc |-> TitledPage])
    /\ papers = <<>>

====
